---- MODULE Spec2Model ----
(***************************************************************************)
(* Kernel inventory and boot selection of clr-boot-manager                 *)
(* (src/bootman/kernel.c).  C strings are sequences of one-character       *)
(* strings; a filesystem path is kept as the base name inside the          *)
(* directory the code formats it into.                                     *)
(***************************************************************************)
EXTENDS Integers, Sequences, FiniteSets, TLC

VARIABLES
    bcp,        \* inspect_kernel: base name handed to sscanf
    scan,       \* inspect_kernel: outcome of the sscanf match
    inp,        \* cbm_parse_system_kernel: input string
    sysk,       \* cbm_parse_system_kernel: the SystemKernel output struct
    sysret,     \* cbm_parse_system_kernel: return value
    dirents,    \* kernel_dir: entries in readdir order
    dir_ok,     \* whether opendir(kernel_dir) succeeds
    modules,    \* names existing under <prefix>/KERNEL_MODULES_DIRECTORY
    kboot,      \* names existing under <prefix>/var/lib/kernel
    pc,         \* position of boot_manager_get_kernels
    ret,        \* the KernelArray* returned: NULL, or the array
    res         \* result of the last selector or classifier query

vars == <<bcp, scan, inp, sysk, sysret, dirents, dir_ok, modules, kboot, pc, ret, res>>

(***************************************************************************)
(* Strings and integers                                                    *)
(***************************************************************************)

NoStr == <<>>

Digit == {"0", "1", "2", "3", "4", "5", "6", "7", "8", "9"}

DigitVal(c) ==
    CASE c = "0" -> 0 [] c = "1" -> 1 [] c = "2" -> 2 [] c = "3" -> 3
      [] c = "4" -> 4 [] c = "5" -> 5 [] c = "6" -> 6 [] c = "7" -> 7
      [] c = "8" -> 8 [] c = "9" -> 9

DigitChar(d) ==
    CASE d = 0 -> "0" [] d = 1 -> "1" [] d = 2 -> "2" [] d = 3 -> "3"
      [] d = 4 -> "4" [] d = 5 -> "5" [] d = 6 -> "6" [] d = 7 -> "7"
      [] d = 8 -> "8" [] d = 9 -> "9"

\* the characters isspace accepts, among those of the inputs
WhiteSpace == {" ", "\t", "\n"}

Min(a, b) == IF a < b THEN a ELSE b

Drop(s, n) == SubSeq(s, n + 1, Len(s))

Take(s, n) == SubSeq(s, 1, Min(n, Len(s)))

IsPrefix(p, s) == Len(p) <= Len(s) /\ SubSeq(s, 1, Len(p)) = p

Rep(c, n) == [i \in 1..n |-> c]

\* strchr: index of the first c in s, 0 when there is none
strchr(s, c) ==
    IF \E i \in 1..Len(s) : s[i] = c
    THEN CHOOSE i \in 1..Len(s) : s[i] = c /\ \A j \in 1..(i - 1) : s[j] # c
    ELSE 0

\* number of leading characters of s satisfying the set membership
SpanIn(s, set) ==
    IF \E i \in 1..Len(s) : s[i] \notin set
    THEN (CHOOSE i \in 1..Len(s) : s[i] \notin set /\ \A j \in 1..(i - 1) : s[j] \in set) - 1
    ELSE Len(s)

AllDigits(s) == \A i \in 1..Len(s) : s[i] \in Digit

\* a digit string without its leading zeros ("000" -> "0")
StripZeros(ds) ==
    LET z == SpanIn(ds, {"0"})
    IN IF z = Len(ds) THEN (IF ds = <<>> THEN <<>> ELSE <<"0">>) ELSE Drop(ds, z)

\* a <= b for digit strings of equal length
DigitsLeq(a, b) ==
    \/ a = b
    \/ \E i \in 1..Len(a) : /\ DigitVal(a[i]) < DigitVal(b[i])
                            /\ \A j \in 1..(i - 1) : a[j] = b[j]

\* whether the magnitude ds is at most the magnitude with decimal digits lim
MagLeq(ds, lim) ==
    LET z == StripZeros(ds)
    IN Len(z) < Len(lim) \/ (Len(z) = Len(lim) /\ DigitsLeq(z, lim))

IntMaxDigits == <<"2", "1", "4", "7", "4", "8", "3", "6", "4", "7">>
IntMinDigits == <<"2", "1", "4", "7", "4", "8", "3", "6", "4", "8">>
LongMaxDigits == <<"9", "2", "2", "3", "3", "7", "2", "0", "3", "6",
                   "8", "5", "4", "7", "7", "5", "8", "0", "7">>
LongMinDigits == <<"9", "2", "2", "3", "3", "7", "2", "0", "3", "6",
                   "8", "5", "4", "7", "7", "5", "8", "0", "8">>

FitsInt(neg, ds) == MagLeq(ds, IF neg THEN IntMinDigits ELSE IntMaxDigits)

FitsLong(neg, ds) == MagLeq(ds, IF neg THEN LongMinDigits ELSE LongMaxDigits)

Limb == 256 * 256

\* the magnitude ds modulo 2^32, as two 16-bit limbs <<hi, lo>>
Mod32(ds) ==
    LET acc[i \in 0..Len(ds)] ==
            IF i = 0 THEN <<0, 0>>
            ELSE LET lo == acc[i - 1][2] * 10 + DigitVal(ds[i])
                     hi == acc[i - 1][1] * 10 + (lo \div Limb)
                 IN <<hi % Limb, lo % Limb>>
    IN acc[Len(ds)]

\* two's complement negation of a 32-bit value held as limbs
Neg32(w) ==
    IF w[2] = 0 THEN <<(Limb - w[1]) % Limb, 0>>
    ELSE <<Limb - 1 - w[1], Limb - w[2]>>

\* the 32-bit pattern read as a signed int
ToInt(w) ==
    IF w[1] >= Limb \div 2 THEN (w[1] - Limb) * Limb + w[2] ELSE w[1] * Limb + w[2]

\* (int) of the long with sign neg and magnitude ds (the value when it fits)
TruncInt(neg, ds) == ToInt(IF neg THEN Neg32(Mod32(ds)) ELSE Mod32(ds))

\* the digits of -n for n <= 0
RECURSIVE NegDigits(_)
NegDigits(n) ==
    IF n = 0 THEN <<>>
    ELSE LET d == (10 - (n % 10)) % 10
         IN NegDigits((n + d) \div 10) \o <<DigitChar(d)>>

\* printf("%d", n)
FormatInt(n) ==
    IF n = 0 THEN <<"0">>
    ELSE IF n < 0 THEN <<"-">> \o NegDigits(n)
    ELSE NegDigits(0 - n)

(***************************************************************************)
(* boot_manager_inspect_kernel: the sscanf match of the base name          *)
(***************************************************************************)

KERNEL_NAMESPACE == <<"o", "r", "g", ".", "c", "l", "e", "a", "r", "l", "i", "n", "u", "x">>

\* char type[15], char version[15]
TokenBuf == 15

\* the field width of %15[^.] and %15[^-]
TokenWidth == 15

\* a scanset conversion two characters narrower than the buffer allows
ScanSetNarrow(s, stop, width) ==
    LET i == strchr(s, stop)
    IN Take(s, Min(width - 2, IF i = 0 THEN Len(s) ELSE i - 1))

\* %<width>[^stop]: the longest run of characters other than stop, cut at width
ScanSet(s, stop, width) ==
    LET i == strchr(s, stop)
    IN Take(s, Min(width, IF i = 0 THEN Len(s) ELSE i - 1))

\* %d: leading white space skipped, an optional sign, then at least one digit;
\* whatever follows the digits is left unread
ScanInt(s) ==
    LET t == Drop(s, SpanIn(s, WhiteSpace))
        signed == t # <<>> /\ Head(t) \in {"-", "+"}
        u == IF signed THEN Tail(t) ELSE t
        n == SpanIn(u, Digit)
    IN [ok |-> n > 0, neg |-> signed /\ Head(t) = "-", digits |-> Take(u, n)]

INT_MAX == ToInt(<<(Limb \div 2) - 1, Limb - 1>>)

INT_MIN == ToInt(<<Limb \div 2, 0>>)

\* what %d stores: the value when an int holds it; otherwise the conversion is
\* undefined, and a libc either truncates the long or saturates
ScanIntValues(d) ==
    IF FitsInt(d.neg, d.digits) THEN {TruncInt(d.neg, d.digits)}
    ELSE {IF FitsLong(d.neg, d.digits) THEN TruncInt(d.neg, d.digits)
                                       ELSE (IF d.neg THEN 0 ELSE -1),
          IF d.neg THEN INT_MIN ELSE INT_MAX}

\* r = sscanf(bcp, KERNEL_NAMESPACE ".%15[^.].%15[^-]-%d", type, version, &release):
\* the conversions made (r) and what each consumed
sscanf_kernel(name) ==
    LET none == [r |-> 0, type |-> NoStr, version |-> NoStr,
                 d |-> [ok |-> FALSE, neg |-> FALSE, digits |-> NoStr]]
        pre == KERNEL_NAMESPACE \o <<".">>
        s1 == Drop(name, Len(pre))
        type == ScanSet(s1, ".", TokenWidth)
        s2 == Drop(s1, Len(type))
        s3 == Drop(s2, 1)
        version == ScanSet(s3, "-", TokenWidth)
        s4 == Drop(s3, Len(version))
        d == ScanInt(Drop(s4, 1))
    IN IF ~IsPrefix(pre, name) \/ type = NoStr THEN none
       ELSE IF s2 = <<>> \/ Head(s2) # "." \/ version = NoStr
            THEN [none EXCEPT !.r = 1, !.type = type]
       ELSE IF s4 = <<>> \/ Head(s4) # "-" \/ ~d.ok
            THEN [none EXCEPT !.r = 2, !.type = type, !.version = version]
       ELSE [r |-> 3, type |-> type, version |-> version, d |-> d]

NoMatch == [st |-> "nomatch", type |-> NoStr, version |-> NoStr, release |-> 0]

Aborted == [st |-> "abort", type |-> NoStr, version |-> NoStr, release |-> 0]

\* lines 76-79: the outcomes of the match.  A token of TokenWidth characters
\* is stored with its terminator one byte past the TokenBuf-byte array: the
\* byte lands in padding (the token is kept), in the neighbouring array (the
\* strings read back joined, or version's terminator empties type), or on the
\* stack guard (the process aborts when the function returns).
ScanOutcomes(name) ==
    LET m == sscanf_kernel(name)
        over_t == Len(m.type) + 1 > TokenBuf
        over_v == Len(m.version) + 1 > TokenBuf
        types == {m.type} \cup (IF over_t THEN {m.type \o m.version} ELSE {})
                          \cup (IF over_v THEN {NoStr} ELSE {})
    IN (IF over_t \/ over_v THEN {Aborted} ELSE {})
       \cup (IF m.r # 3 THEN {NoMatch}
             ELSE {[st |-> "match", type |-> t, version |-> m.version, release |-> rel] :
                      t \in types, rel \in ScanIntValues(m.d)})

(***************************************************************************)
(* The base names the match is run on                                      *)
(***************************************************************************)

\* free tails over the pattern's characters, up to this length
MaxTail == 7

TailChars == {".", "-", "a", "1"}

\* a namespace other than KERNEL_NAMESPACE
OtherNamespace == <<"o", "r", "g", ".", "c", "l", "e", "a", "r", "l", "i", "n", "u", "z">>

FreeNames ==
    {p \o t : p \in {KERNEL_NAMESPACE, OtherNamespace, NoStr},
              t \in UNION {[1..n -> TailChars] : n \in 0..MaxTail}}

\* tokens around the token bound
BoundTokens(c) == {Rep(c, n) : n \in {1, TokenBuf - 2, TokenBuf - 1, TokenBuf, TokenBuf + 1}}

\* release texts: leading zeros, the ends of int, signs, white space, garbage
ReleaseTexts ==
    {<<"7">>, <<"0", "0", "7">>, <<"0">>, IntMaxDigits, IntMinDigits,
     <<"4", "2", "9", "4", "9", "6", "7", "3", "0", "3">>,
     LongMinDigits \o <<"0">>,
     <<"-", "5">>, <<"+", "5">>, <<" ", "5">>, <<"1", "2", "1", "a", "b", "c">>}

ShapedNames ==
    {KERNEL_NAMESPACE \o <<".">> \o t \o <<".">> \o v \o <<"-">> \o r :
        t \in BoundTokens("k") \cup {<<"k", "-", "v">>},
        v \in BoundTokens("4") \cup {<<"4", ".", "2">>},
        r \in ReleaseTexts}

NameInputs == FreeNames \cup ShapedNames

NotRun == [st |-> "notrun", type |-> NoStr, version |-> NoStr, release |-> 0]

NoRes == [op |-> "none", type |-> NoStr, val |-> 0]

InitIdleScan ==
    /\ dirents = <<>> /\ dir_ok = FALSE /\ modules = {} /\ kboot = {}
    /\ pc = "idle" /\ ret = [null |-> TRUE, arr |-> <<>>] /\ res = NoRes

InitIdleSys == inp = NoStr /\ sysk = [version |-> NoStr, release |-> 0, ktype |-> NoStr] /\ sysret = "none"

InitIdleName == bcp = NoStr /\ scan = NotRun

InitName ==
    /\ bcp \in NameInputs
    /\ scan = NotRun
    /\ InitIdleSys
    /\ InitIdleScan

\* lines 73-79 of boot_manager_inspect_kernel on the base name bcp
InspectName ==
    /\ scan = NotRun
    /\ scan' \in ScanOutcomes(bcp)
    /\ UNCHANGED <<bcp, inp, sysk, sysret, dirents, dir_ok, modules, kboot, pc, ret, res>>

NextName == InspectName

SpecName == InitName /\ [][NextName]_vars

(***************************************************************************)
(* The name pattern <namespace>.<type>.<version>-<release> of the          *)
(* specification                                                           *)
(***************************************************************************)

PatTail(name) == Drop(name, Len(KERNEL_NAMESPACE) + 1)

PatType(name) == LET i == strchr(PatTail(name), ".") IN Take(PatTail(name), IF i = 0 THEN 0 ELSE i - 1)

PatRest(name) == Drop(PatTail(name), Len(PatType(name)) + 1)

PatVersion(name) == LET i == strchr(PatRest(name), "-") IN Take(PatRest(name), IF i = 0 THEN 0 ELSE i - 1)

PatRelease(name) == Drop(PatRest(name), Len(PatVersion(name)) + 1)

\* the name has the form of the pattern, both tokens below the token maximum
IsPatternName(name) ==
    /\ IsPrefix(KERNEL_NAMESPACE \o <<".">>, name)
    /\ PatType(name) # NoStr /\ Len(PatType(name)) < TokenBuf
    /\ PatVersion(name) # NoStr /\ Len(PatVersion(name)) < TokenBuf
    /\ PatRelease(name) # NoStr /\ AllDigits(PatRelease(name))

\* C3: a name of the pattern form (tokens within the bound, digit-only release)
\* is matched and yields exactly its type, its version and the integer value of
\* its release.
C3_RoundTrip ==
    (scan # NotRun /\ IsPatternName(bcp)) =>
        /\ scan.st = "match"
        /\ scan.type = PatType(bcp)
        /\ scan.version = PatVersion(bcp)
        /\ FormatInt(scan.release) = StripZeros(PatRelease(bcp))

\* C3 amended: the same, for a release whose value an int holds (at most INT_MAX).
C3_RoundTripInt ==
    (scan # NotRun /\ IsPatternName(bcp) /\ FitsInt(FALSE, PatRelease(bcp))) =>
        /\ scan.st = "match"
        /\ scan.type = PatType(bcp)
        /\ scan.version = PatVersion(bcp)
        /\ FormatInt(scan.release) = StripZeros(PatRelease(bcp))

C3_Witness ==
    /\ scan.st = "match"
    /\ IsPatternName(bcp)
    /\ Len(PatType(bcp)) = TokenBuf - 1
    /\ PatRelease(bcp) = IntMaxDigits
    /\ scan.release = INT_MAX

\* C4: every name that violates the pattern (wrong namespace, missing '.' or
\* '-', a token at or above the token maximum, a release that is not a
\* non-negative decimal integer, trailing characters) is rejected without a
\* hard error.
C4_RejectsNonPattern ==
    (scan # NotRun /\ ~IsPatternName(bcp)) => scan.st = "nomatch"

(***************************************************************************)
(* The filesystem: kernel_dir as the entries readdir returns, the module   *)
(* directory and the boot-marker directory as the names present in them    *)
(***************************************************************************)

\* a char* that is NULL (no sequence of characters equals it)
NULL == <<"NULL">>

\* a Kernel* that is NULL; a Kernel* is otherwise the index of the record
NoKernel == 0

NoEntry == [name |-> NULL, kind |-> "none", size |-> 0, content |-> NoStr,
            openable |-> FALSE, target |-> NoStr]

\* the entry of kernel_dir called name, NoEntry when there is none
Lookup(D, name) ==
    IF \E i \in 1..Len(D) : D[i].name = name /\ D[i].kind # "gone"
    THEN D[CHOOSE i \in 1..Len(D) : D[i].name = name /\ D[i].kind # "gone"]
    ELSE NoEntry

\* the entry a path of kernel_dir resolves to, a symlink followed
Resolve(D, name) ==
    LET e == Lookup(D, name)
    IN IF e.kind = "lnk"
       THEN (IF Lookup(D, e.target).kind = "lnk" THEN NoEntry ELSE Lookup(D, e.target))
       ELSE e

\* nc_file_exists(<kernel_dir>/name)
nc_file_exists(D, name) == Resolve(D, name).kind # "none"

\* fopen(<kernel_dir>/name, "r") succeeds
fopen_ok(D, name) == nc_file_exists(D, name) /\ Resolve(D, name).openable

\* "%s-%d.%s" of version, release, type
KernelId(version, release, type) == version \o <<"-">> \o FormatInt(release) \o <<".">> \o type

\* "%s-%d" of version, release: the module directory of the older layout
LegacyId(version, release) == version \o <<"-">> \o FormatInt(release)

CmdlinePrefix == <<"c", "m", "d", "l", "i", "n", "e", "-">>

ConfigPrefix == <<"c", "o", "n", "f", "i", "g", "-">>

KbootPrefix == <<"k", "_", "b", "o", "o", "t", "e", "d", "_">>

\* boot_manager_get_kboot_file: the base name under <prefix>/var/lib/kernel
boot_manager_get_kboot_file(k) == KbootPrefix \o KernelId(k.version, k.release, k.ktype)

\* getline: the first line of the text s, its newline included
FirstLine(s) == LET i == strchr(s, "\n") IN IF i = 0 THEN s ELSE Take(s, i)

\* lines 158-160: the newline is cut only from a line longer than one character
StripLine(buf) ==
    IF Len(buf) > 1 /\ buf[Len(buf)] = "\n" THEN Take(buf, Len(buf) - 1) ELSE buf

\* lines 155-173: the getline loop over the rest of the file, cmdline so far
RECURSIVE ReadCmdline(_, _)
ReadCmdline(rest, cmdline) ==
    IF rest = <<>> THEN cmdline
    ELSE LET buf == StripLine(FirstLine(rest))
         IN ReadCmdline(Drop(rest, Len(FirstLine(rest))),
                        IF cmdline # NULL THEN cmdline \o <<" ">> \o buf ELSE buf)

NoKern == [bpath |-> NULL, version |-> NULL, release |-> 0, ktype |-> NULL,
           module_dir |-> NULL, kconfig_file |-> NULL, cmdline_file |-> NULL,
           cmdline |-> NULL, kboot_file |-> NULL, boots |-> FALSE]

\* the record builder without the fallback to the older module layout
BuildKernelNoLegacy(D, M, B, name, m) ==
    LET id == KernelId(m.version, m.release, m.type)
        cmdline == CmdlinePrefix \o id
        kern == [bpath |-> name, version |-> m.version, release |-> m.release,
                 ktype |-> m.type, module_dir |-> id,
                 kconfig_file |-> IF nc_file_exists(D, ConfigPrefix \o id)
                                  THEN ConfigPrefix \o id ELSE NULL,
                 cmdline_file |-> cmdline,
                 cmdline |-> ReadCmdline(Resolve(D, cmdline).content, NULL),
                 kboot_file |-> KbootPrefix \o id,
                 boots |-> (KbootPrefix \o id) \in B]
    IN IF ~nc_file_exists(D, cmdline) \/ id \notin M \/ ~fopen_ok(D, cmdline)
       THEN NoKern ELSE kern

\* lines 81-185 of boot_manager_inspect_kernel, for a matched name: the
\* Kernel built, or NoKern when NULL is returned
BuildKernel(D, M, B, name, m) ==
    LET id == KernelId(m.version, m.release, m.type)
        cmdline == CmdlinePrefix \o id
        kconfig_file == ConfigPrefix \o id
        module_dir == IF id \in M THEN id ELSE LegacyId(m.version, m.release)
        kern == [bpath |-> name, version |-> m.version, release |-> m.release,
                 ktype |-> m.type, module_dir |-> module_dir,
                 kconfig_file |-> IF nc_file_exists(D, kconfig_file) THEN kconfig_file ELSE NULL,
                 cmdline_file |-> cmdline,
                 cmdline |-> ReadCmdline(Resolve(D, cmdline).content, NULL),
                 kboot_file |-> boot_manager_get_kboot_file([version |-> m.version,
                                    release |-> m.release, ktype |-> m.type]),
                 boots |-> boot_manager_get_kboot_file([version |-> m.version,
                                    release |-> m.release, ktype |-> m.type]) \in B]
    IN IF ~nc_file_exists(D, cmdline) THEN NoKern
       ELSE IF module_dir \notin M THEN NoKern
       ELSE IF ~fopen_ok(D, cmdline) THEN NoKern
       ELSE kern

\* boot_manager_inspect_kernel(self, <kernel_dir>/name): the possible results:
\* the process aborts, or a Kernel (NoKern for NULL) is returned
boot_manager_inspect_kernel(D, M, B, name) ==
    {[abort |-> o.st = "abort",
      kern |-> IF o.st = "match" THEN BuildKernel(D, M, B, name, o) ELSE NoKern] :
        o \in ScanOutcomes(name)}

\* lines 208-241: the readdir loop, as the arrays it can end with
ScanResults(D, M, B) ==
    LET acc[i \in 0..Len(D)] ==
            IF i = 0 THEN {[abort |-> FALSE, arr |-> <<>>]}
            ELSE UNION {
                   IF a.abort THEN {a}
                   ELSE IF D[i].kind = "gone" THEN {a}
                   ELSE IF D[i].kind # "reg" THEN {a}
                   ELSE IF D[i].size = 0 THEN {a}
                   ELSE {IF k.abort THEN [a EXCEPT !.abort = TRUE]
                         ELSE IF k.kern = NoKern THEN a
                         ELSE [a EXCEPT !.arr = Append(@, k.kern)] :
                            k \in boot_manager_inspect_kernel(D, M, B, D[i].name)}
                   : a \in acc[i - 1]}
    IN acc[Len(D)]

\* boot_manager_get_kernels(self)
boot_manager_get_kernels ==
    /\ pc = "start"
    /\ IF ~dir_ok
       THEN pc' = "returned" /\ ret' = [null |-> TRUE, arr |-> <<>>]
       ELSE \E a \in ScanResults(dirents, modules, kboot) :
              /\ pc' = IF a.abort THEN "aborted" ELSE "returned"
              /\ ret' = [null |-> FALSE, arr |-> a.arr]
    /\ UNCHANGED <<bcp, scan, inp, sysk, sysret, dirents, dir_ok, modules, kboot, res>>

(***************************************************************************)
(* Classifier and selectors over the KernelArray                           *)
(***************************************************************************)

\* nc_hashmap_put(map, key, value)
nc_hashmap_put(map, key, value) ==
    [x \in (DOMAIN map) \cup {key} |-> IF x = key THEN value ELSE map[x]]

\* nc_hashmap_get(map, key) finds a value
nc_hashmap_has(map, key) == key \in DOMAIN map

\* nc_array_add(r, cur) on the bucket stored under key
BucketAdd(map, key, ptr) == [map EXCEPT ![key] = Append(@, ptr)]

\* the loop turn putting a fresh bucket under the type every time
MapStepReset(map, kernels, i) ==
    BucketAdd(nc_hashmap_put(map, kernels[i].ktype, <<>>), kernels[i].ktype, i)

\* lines 307-323: one turn of the loop, cur = kernels[i]
MapStep(map, kernels, i) ==
    BucketAdd(IF nc_hashmap_has(map, kernels[i].ktype) THEN map
              ELSE nc_hashmap_put(map, kernels[i].ktype, <<>>),
              kernels[i].ktype, i)

\* boot_manager_map_kernels(self, kernels): type -> the Kernel* of that type
boot_manager_map_kernels(kernels) ==
    LET acc[i \in 0..Len(kernels)] ==
            IF i = 0 THEN [x \in {} |-> <<>>] ELSE MapStep(acc[i - 1], kernels, i)
    IN acc[Len(kernels)]

DefaultPrefix == <<"d", "e", "f", "a", "u", "l", "t", "-">>

\* the scan comparing only as many characters as the link text has
FirstByPrefix(kernels, linkbuf) ==
    IF \E i \in 1..Len(kernels) : IsPrefix(linkbuf, kernels[i].bpath)
    THEN CHOOSE i \in 1..Len(kernels) :
            /\ IsPrefix(linkbuf, kernels[i].bpath)
            /\ \A j \in 1..(i - 1) : ~IsPrefix(linkbuf, kernels[j].bpath)
    ELSE NoKernel

\* lines 280-287: the first record whose bpath is the link text
FirstByPath(kernels, linkbuf) ==
    IF \E i \in 1..Len(kernels) : kernels[i].bpath = linkbuf
    THEN CHOOSE i \in 1..Len(kernels) :
            /\ kernels[i].bpath = linkbuf
            /\ \A j \in 1..(i - 1) : kernels[j].bpath # linkbuf
    ELSE NoKernel

\* boot_manager_get_default_for_type(self, kernels, type)
boot_manager_get_default_for_type(D, kernels, type) ==
    LET default_file == Lookup(D, DefaultPrefix \o type)
    IN IF default_file.kind # "lnk" THEN NoKernel
       ELSE FirstByPath(kernels, default_file.target)

\* the loop turn skipping a record whose release is not higher
LastBootedStepStrict(st, k, i) ==
    IF k.release <= st.high_rel THEN st
    ELSE IF ~k.boots THEN st
    ELSE [candidate |-> i, high_rel |-> k.release]

\* lines 447-454: one turn of the loop over k = kernels[i]
LastBootedStep(st, k, i) ==
    IF k.release < st.high_rel THEN st
    ELSE IF ~k.boots THEN st
    ELSE [candidate |-> i, high_rel |-> k.release]

\* boot_manager_get_last_booted(self, kernels)
boot_manager_get_last_booted(kernels) ==
    LET acc[i \in 0..Len(kernels)] ==
            IF i = 0 THEN [candidate |-> NoKernel, high_rel |-> -1]
            ELSE LastBootedStep(acc[i - 1], kernels[i], i)
    IN acc[Len(kernels)].candidate

Queryable == pc = "returned" /\ ~ret.null /\ res.op = "none"

GetLastBooted ==
    /\ Queryable
    /\ res' = [op |-> "last_booted", type |-> NoStr,
               val |-> boot_manager_get_last_booted(ret.arr)]
    /\ UNCHANGED <<bcp, scan, inp, sysk, sysret, dirents, dir_ok, modules, kboot, pc, ret>>

\* the types a caller asks the default of
QueryTypes == {<<"a">>, <<"b">>}

GetDefaultForType ==
    /\ Queryable
    /\ \E type \in QueryTypes :
         res' = [op |-> "default", type |-> type,
                 val |-> boot_manager_get_default_for_type(dirents, ret.arr, type)]
    /\ UNCHANGED <<bcp, scan, inp, sysk, sysret, dirents, dir_ok, modules, kboot, pc, ret>>

MapKernels ==
    /\ Queryable
    /\ res' = [op |-> "map", type |-> NoStr, val |-> boot_manager_map_kernels(ret.arr)]
    /\ UNCHANGED <<bcp, scan, inp, sysk, sysret, dirents, dir_ok, modules, kboot, pc, ret>>

NextSel == boot_manager_get_kernels \/ GetLastBooted \/ GetDefaultForType \/ MapKernels

NextScan == boot_manager_get_kernels

(***************************************************************************)
(* Directories the operations are run on                                   *)
(***************************************************************************)

RegFile(name, size, content, openable) ==
    [name |-> name, kind |-> "reg", size |-> size, content |-> content,
     openable |-> openable, target |-> NoStr]

OtherEntry(name, kind, target) ==
    [name |-> name, kind |-> kind, size |-> 1, content |-> NoStr,
     openable |-> TRUE, target |-> target]

\* the kernel blob name <namespace>.<type>.<version>-<release text>
BlobName(type, version, reltext) ==
    KERNEL_NAMESPACE \o <<".">> \o type \o <<".">> \o version \o <<"-">> \o reltext

\* all sequences of distinct elements of S, of length at most n
InjSeqs(S, n) ==
    {q \in UNION {[1..m -> S] : m \in 0..n} :
        \A i, j \in 1..Len(q) : i # j => q[i] # q[j]}

\* the elements of the sequence u that satisfy the test, made into entries
Entries(u, Keep(_), Make(_)) ==
    LET kept == SelectSeq([i \in 1..Len(u) |-> i], Keep)
    IN [i \in 1..Len(kept) |-> Make(kept[i])]

CmdText == <<"q", "u", "i", "e", "t", "\n">>

\* kernel blobs of the selector runs: name, and the identity it is installed
\* under (the name of its cmdline file, module directory and boot marker)
SelBlobs ==
    <<[name |-> BlobName(<<"a">>, <<"4">>, <<"5">>), id |-> KernelId(<<"4">>, 5, <<"a">>)],
      [name |-> BlobName(<<"a">>, <<"4">>, <<"7">>), id |-> KernelId(<<"4">>, 7, <<"a">>)],
      [name |-> BlobName(<<"a">>, <<"4">>, <<"9">>), id |-> KernelId(<<"4">>, 9, <<"a">>)],
      [name |-> BlobName(<<"b">>, <<"4">>, <<"7">>), id |-> KernelId(<<"4">>, 7, <<"b">>)],
      [name |-> BlobName(<<"a">>, <<"4">>, <<"-", "5">>), id |-> KernelId(<<"4">>, -5, <<"a">>)],
      [name |-> BlobName(<<"a">>, <<"4">>, <<"7", "x">>), id |-> KernelId(<<"4">>, 7, <<"a">>)]>>

\* kernel blobs in one directory of a selector run
MaxKernels == 3

\* the default-<type> symlinks tried: none, or one of a queried type whose
\* text is a kernel of type a, a kernel of type b, or no kernel; or a
\* default-<type> that is no symlink
SelLinks ==
    {<<>>, <<RegFile(DefaultPrefix \o <<"a">>, 1, NoStr, TRUE)>>} \cup {<<OtherEntry(DefaultPrefix \o t, "lnk", x)>> :
                    t \in QueryTypes,
                    x \in {SelBlobs[2].name, SelBlobs[4].name, <<"v", "m", "l", "i", "n", "u", "z">>}}

\* kernel_dir holding the blobs picked (in that order), their cmdline files
\* and the link
SelDir(picks, link) ==
    LET picked(i) == \E j \in 1..Len(picks) : picks[j] = i
        first(i) == picked(i) /\ \A j \in 1..(i - 1) : ~(picked(j) /\ SelBlobs[j].id = SelBlobs[i].id)
        blob(j) == RegFile(SelBlobs[picks[j]].name, 1, NoStr, TRUE)
        cmd(i) == RegFile(CmdlinePrefix \o SelBlobs[i].id, Len(CmdText), CmdText, TRUE)
    IN [j \in 1..Len(picks) |-> blob(j)] \o Entries(SelBlobs, first, cmd) \o link

InitSel ==
    /\ InitIdleName /\ InitIdleSys
    /\ \E picks \in InjSeqs(1..Len(SelBlobs), MaxKernels) :
         /\ \E link \in SelLinks : dirents = SelDir(picks, link)
         /\ modules = {SelBlobs[picks[j]].id : j \in 1..Len(picks)}
         /\ kboot \in SUBSET {KbootPrefix \o SelBlobs[picks[j]].id : j \in 1..Len(picks)}
    /\ dir_ok = TRUE
    /\ pc = "start" /\ ret = [null |-> TRUE, arr |-> <<>>] /\ res = NoRes

SpecSel == InitSel /\ [][NextSel]_vars

(***************************************************************************)
(* Claims about the selectors and the classifier (SpecSel)                 *)
(***************************************************************************)

Inventory == ret.arr

Booted == {i \in 1..Len(Inventory) : Inventory[i].boots}

\* the booted records of the highest release among the booted records
TopBooted == {i \in Booted : \A j \in Booted : Inventory[j].release <= Inventory[i].release}

IsBooted(k) == k.boots

SetMin(S) == CHOOSE x \in S : \A y \in S : x <= y

SetMax(S) == CHOOSE x \in S : \A y \in S : y <= x

\* C1: last-booted returns a booted record of the maximum release among the
\* booted records, absent exactly when no record is booted, and the records
\* that are not booted never change the result.
C1_LastBooted ==
    res.op = "last_booted" =>
        /\ (res.val = NoKernel) <=> (Booted = {})
        /\ res.val # NoKernel => res.val \in TopBooted
        /\ res.val # NoKernel =>
             LET sub == SelectSeq(Inventory, IsBooted)
             IN Inventory[res.val] = sub[boot_manager_get_last_booted(sub)]

\* C2: when several booted records share the highest release, last-booted
\* returns the one encountered first in scan order.
C2_TieFirst ==
    (res.op = "last_booted" /\ Cardinality(TopBooted) >= 2) => res.val = SetMin(TopBooted)

\* C2 amended: when several booted records share the highest release, and that
\* release is not below the initial high-water mark -1, last-booted returns the
\* one encountered last in scan order.
C2_TieLast ==
    (/\ res.op = "last_booted"
     /\ Cardinality(TopBooted) >= 2
     /\ \A i \in TopBooted : Inventory[i].release >= -1) => res.val = SetMax(TopBooted)

C2_Witness ==
    /\ res.op = "last_booted"
    /\ Cardinality(TopBooted) >= 2
    /\ res.val = SetMax(TopBooted)
    /\ \E i \in 1..Len(Inventory) : ~Inventory[i].boots /\ Inventory[i].release > Inventory[res.val].release

InventoryTypes == {Inventory[i].ktype : i \in 1..Len(Inventory)}

RECURSIVE SumLen(_, _)
SumLen(m, keys) ==
    IF keys = {} THEN 0
    ELSE LET k == CHOOSE x \in keys : TRUE IN Len(m[k]) + SumLen(m, keys \ {k})

\* C7: the mapping has one bucket per type present, none empty; every record
\* is in exactly one bucket, that of its own type; the bucket sizes sum to the
\* inventory's length; a bucket keeps the inventory order and merges nothing.
C7_MapPartition ==
    res.op = "map" =>
        /\ DOMAIN res.val = InventoryTypes
        /\ \A t \in DOMAIN res.val :
             /\ res.val[t] # <<>>
             /\ \A n \in 1..Len(res.val[t]) :
                  /\ res.val[t][n] \in 1..Len(Inventory)
                  /\ Inventory[res.val[t][n]].ktype = t
             /\ \A n1, n2 \in 1..Len(res.val[t]) : n1 < n2 => res.val[t][n1] < res.val[t][n2]
        /\ \A i \in 1..Len(Inventory) :
             /\ Cardinality({p \in UNION {{t} \X (1..Len(res.val[t])) : t \in DOMAIN res.val} :
                                res.val[p[1]][p[2]] = i}) = 1
             /\ \E n \in 1..Len(res.val[Inventory[i].ktype]) : res.val[Inventory[i].ktype][n] = i
        /\ SumLen(res.val, DOMAIN res.val) = Len(Inventory)

C7_Witness ==
    /\ res.op = "map"
    /\ Cardinality(DOMAIN res.val) = 2
    /\ \E t \in DOMAIN res.val : \E n1, n2 \in 1..Len(res.val[t]) :
          /\ n1 # n2
          /\ Inventory[res.val[t][n1]].version = Inventory[res.val[t][n2]].version
          /\ Inventory[res.val[t][n1]].release = Inventory[res.val[t][n2]].release

DefaultLink == Lookup(dirents, DefaultPrefix \o res.type)

PathMatches == {i \in 1..Len(Inventory) : Inventory[i].bpath = DefaultLink.target}

\* C8: default-for-type is absent when default-<type> is missing or cannot be
\* read as a symlink, and when its text is the base name of no record;
\* otherwise it is the first record whose base name equals the text exactly.
C8_Default ==
    res.op = "default" =>
        /\ DefaultLink.kind # "lnk" => res.val = NoKernel
        /\ (DefaultLink.kind = "lnk" /\ PathMatches = {}) => res.val = NoKernel
        /\ (DefaultLink.kind = "lnk" /\ PathMatches # {}) => res.val = SetMin(PathMatches)

C8_Witness ==
    /\ res.op = "default"
    /\ DefaultLink.kind = "lnk"
    /\ res.val # NoKernel
    /\ Inventory[res.val].bpath = DefaultLink.target
    /\ \E i \in 1..Len(Inventory) : i # res.val /\ IsPrefix(DefaultLink.target, Inventory[i].bpath)

\* C10: a record returned as the default for type T has type T.
C10_DefaultHasType ==
    (res.op = "default" /\ res.val # NoKernel) => Inventory[res.val].ktype = res.type

(***************************************************************************)
(* The inventory scan (SpecScan)                                           *)
(***************************************************************************)

\* names of entries of a scanned directory: two kernels, a name with
\* characters after the release (installed under the first kernel's identity)
\* and a file that is no kernel
ScanBlobs ==
    {BlobName(<<"a">>, <<"4">>, <<"5">>), BlobName(<<"b">>, <<"4">>, <<"7">>),
     BlobName(<<"a">>, <<"4">>, <<"5", "x">>), <<"v", "m", "l", "i", "n", "u", "z">>}

IdA == KernelId(<<"4">>, 5, <<"a">>)

IdB == KernelId(<<"4">>, 7, <<"b">>)

\* what an entry of that name can be: a regular file, an empty regular file,
\* a directory, a symlink, or an entry that is gone when lstat looks
ScanVariants(name) ==
    {RegFile(name, 1, NoStr, TRUE), RegFile(name, 0, NoStr, TRUE),
     OtherEntry(name, "dir", NoStr), OtherEntry(name, "lnk", <<"v", "m", "l", "i", "n", "u", "z">>),
     OtherEntry(name, "gone", NoStr)}

\* entries of a scanned directory besides the cmdline files
MaxEntries == 2

ScanListings ==
    {q \in UNION {[1..m -> UNION {ScanVariants(n) : n \in ScanBlobs}] : m \in 0..MaxEntries} :
        \A i, j \in 1..Len(q) : i # j => q[i].name # q[j].name}

\* the cmdline file of an identity: missing, present, or present and not
\* openable for reading
CmdFiles(id) ==
    {<<>>, <<RegFile(CmdlinePrefix \o id, Len(CmdText), CmdText, TRUE)>>,
     <<RegFile(CmdlinePrefix \o id, Len(CmdText), CmdText, FALSE)>>}

InitScan ==
    /\ InitIdleName /\ InitIdleSys
    /\ \/ /\ dir_ok = TRUE
          /\ \E q \in ScanListings, ca \in CmdFiles(IdA), cb \in CmdFiles(IdB) :
                dirents = q \o ca \o cb
          /\ \E ma \in SUBSET {IdA, LegacyId(<<"4">>, 5)} : modules = ma \cup {IdB}
       \/ /\ dir_ok = FALSE
          /\ dirents = <<>>
          /\ modules = {}
    /\ kboot = {}
    /\ pc = "start" /\ ret = [null |-> TRUE, arr |-> <<>>] /\ res = NoRes

SpecScan == InitScan /\ [][NextScan]_vars

\* the entries a scan keeps, by the conditions of the claim (cmdline file
\* openable or not is not asked)
KeptByClaim(e) ==
    /\ e.kind = "reg" /\ e.size # 0
    /\ sscanf_kernel(e.name).r = 3
    /\ LET m == sscanf_kernel(e.name)
           rel == TruncInt(m.d.neg, m.d.digits)
       IN /\ nc_file_exists(dirents, CmdlinePrefix \o KernelId(m.version, rel, m.type))
          /\ \/ KernelId(m.version, rel, m.type) \in modules
             \/ LegacyId(m.version, rel) \in modules

\* the same, the cmdline file also openable for reading
KeptByCode(e) ==
    /\ KeptByClaim(e)
    /\ LET m == sscanf_kernel(e.name)
       IN fopen_ok(dirents, CmdlinePrefix \o KernelId(m.version, TruncInt(m.d.neg, m.d.digits), m.type))

NamesOf(entries) == [i \in 1..Len(entries) |-> entries[i].name]

PathsOf(kernels) == [i \in 1..Len(kernels) |-> kernels[i].bpath]

MaxContent == 5

CmdChars == {"q", " ", "\n"}

InitCmd ==
    /\ InitIdleName /\ InitIdleSys
    /\ \E text \in UNION {[1..n -> CmdChars] : n \in 0..MaxContent} :
         dirents = <<RegFile(BlobName(<<"a">>, <<"4">>, <<"5">>), 1, NoStr, TRUE),
                     RegFile(CmdlinePrefix \o IdA, Len(text), text, TRUE)>>
    /\ dir_ok = TRUE /\ modules = {IdA} /\ kboot = {}
    /\ pc = "start" /\ ret = [null |-> TRUE, arr |-> <<>>] /\ res = NoRes

SpecCmd == InitCmd /\ [][NextScan]_vars

\* the lines of a text, each ending with its newline (the last may lack one)
RECURSIVE LinesOf(_)
LinesOf(text) ==
    IF text = <<>> THEN <<>>
    ELSE <<FirstLine(text)>> \o LinesOf(Drop(text, Len(FirstLine(text))))

\* a line without its single trailing newline
Chomp(line) ==
    IF line # <<>> /\ line[Len(line)] = "\n" THEN Take(line, Len(line) - 1) ELSE line

RECURSIVE JoinLines(_)
JoinLines(lines) ==
    IF lines = <<>> THEN <<>>
    ELSE IF Len(lines) = 1 THEN Chomp(lines[1])
    ELSE Chomp(lines[1]) \o <<" ">> \o JoinLines(Tail(lines))

\* C9: the cmdline of a built record is the file's lines in order, each
\* without its trailing newline, joined by one space; it holds no newline and
\* is never NULL, an empty file included.
C9_Cmdline ==
    (pc = "returned" /\ Len(ret.arr) = 1) =>
        /\ ret.arr[1].cmdline # NULL
        /\ ret.arr[1].cmdline = JoinLines(LinesOf(dirents[2].content))
        /\ \A i \in 1..Len(ret.arr[1].cmdline) : ret.arr[1].cmdline[i] # "\n"

(***************************************************************************)
(* cbm_parse_system_kernel (SpecSys)                                       *)
(***************************************************************************)

\* bootman.h: the longest version or type a SystemKernel holds
CBM_KELEM_LEN == 31

ZeroKernel == [version |-> NoStr, release |-> 0, ktype |-> NoStr]

\* release = strtol(krelease, &junk, 10): the int stored and what junk is
\* left pointing at
strtol_release(krelease) ==
    LET d == ScanInt(krelease)
        ws == SpanIn(krelease, WhiteSpace)
        used == ws + (IF d.ok /\ (d.neg \/ krelease[ws + 1] = "+") THEN 1 ELSE 0) + Len(d.digits)
    IN IF ~d.ok THEN [release |-> 0, junk |-> krelease]
       ELSE [release |-> IF FitsLong(d.neg, d.digits) THEN TruncInt(d.neg, d.digits)
                         ELSE (IF d.neg THEN 0 ELSE -1),
             junk |-> Drop(krelease, used)]

\* cbm_parse_system_kernel(inp, kernel): the return value and *kernel after it
cbm_parse_system_kernel(s) ==
    LET c == strchr(s, "-")
        dot == strchr(Drop(s, c), ".")
        c2 == c + dot
        version == Take(s, c - 1)
        krelease == SubSeq(s, c + 1, c2 - 1)
        r == strtol_release(krelease)
        ktype == Drop(s, c2)
        fail(k) == [ret |-> "false", kernel |-> k]
        k1 == [ZeroKernel EXCEPT !.version = version]
        k2 == [k1 EXCEPT !.release = r.release]
    IN IF c = 0 THEN fail(ZeroKernel)
       ELSE IF c - 1 >= CBM_KELEM_LEN THEN fail(ZeroKernel)
       ELSE IF dot = 0 THEN fail(ZeroKernel)
       ELSE IF c2 - c >= CBM_KELEM_LEN THEN fail(ZeroKernel)
       ELSE IF c - 1 < 1 THEN fail(ZeroKernel)
       ELSE IF c2 - c - 1 < 1 THEN fail(k1)
       ELSE IF r.junk # NoStr THEN fail(k1)
       ELSE IF Len(ktype) < 1 \/ Len(ktype) >= CBM_KELEM_LEN THEN fail(k2)
       ELSE [ret |-> "true", kernel |-> [k2 EXCEPT !.ktype = ktype]]

\* free inputs over the format's characters, up to this length
MaxSys == 6

SysChars == {".", "-", "4", "a"}

SysTokens(c) == {Rep(c, n) : n \in {1, CBM_KELEM_LEN - 2, CBM_KELEM_LEN - 1, CBM_KELEM_LEN}}

SysReleases ==
    {<<"1", "2", "0">>, <<"0", "0", "7">>, <<"a", "b", "c">>, <<"1", "2", "0", "a">>,
     <<"-", "5">>, <<"+", "5">>, <<" ", "5">>, <<"-">>,
     IntMaxDigits, IntMinDigits, LongMinDigits \o <<"0">>}
    \cup {Rep("1", n) : n \in {CBM_KELEM_LEN - 2, CBM_KELEM_LEN - 1}}

SysInputs ==
    UNION {[1..n -> SysChars] : n \in 0..MaxSys}
    \cup {v \o <<"-">> \o r \o <<".">> \o t :
            v \in SysTokens("4") \cup {<<"4", ".", "4", ".", "0">>},
            r \in SysReleases,
            t \in SysTokens("l") \cup {<<"l", "t", "s">>}}
    \cup {<<"4", ".", "4", ".", "0", ".", "l", "t", "s">>}

\* a SystemKernel left by an earlier call
StaleKernel == [version |-> <<"9", ".", "9">>, release |-> 99, ktype |-> <<"o", "l", "d">>]

InitSys ==
    /\ InitIdleName /\ InitIdleScan
    /\ inp \in SysInputs
    /\ sysk \in {ZeroKernel, StaleKernel}
    /\ sysret = "none"

ParseSystemKernel ==
    /\ sysret = "none"
    /\ sysret' = cbm_parse_system_kernel(inp).ret
    /\ sysk' = cbm_parse_system_kernel(inp).kernel
    /\ UNCHANGED <<bcp, scan, inp, dirents, dir_ok, modules, kboot, pc, ret, res>>

NextSys == ParseSystemKernel

SpecSys == InitSys /\ [][NextSys]_vars

\* the parts of <version>-<release>.<type>: version before the first '-',
\* release up to the next '.', type the remainder
SysVersion(s) == Take(s, strchr(s, "-") - 1)

SysAfterDash(s) == Drop(s, strchr(s, "-"))

SysRelease(s) == Take(SysAfterDash(s), strchr(SysAfterDash(s), ".") - 1)

SysType(s) == Drop(SysAfterDash(s), strchr(SysAfterDash(s), "."))

SysWithin(token) == token # NoStr /\ Len(token) < CBM_KELEM_LEN

IsSystemForm(s) ==
    /\ strchr(s, "-") # 0
    /\ strchr(SysAfterDash(s), ".") # 0
    /\ SysWithin(SysVersion(s))
    /\ SysWithin(SysRelease(s)) /\ AllDigits(SysRelease(s))
    /\ SysWithin(SysType(s))

\* C5: the parse succeeds exactly for <version>-<release>.<type> with the
\* three parts non-empty and within the bound and a digit-only release, and
\* then holds that version, the integer value of the release and that type.
C5_SystemKernel ==
    sysret # "none" =>
        /\ (sysret = "true") <=> IsSystemForm(inp)
        /\ sysret = "true" =>
             /\ sysk.version = SysVersion(inp)
             /\ FormatInt(sysk.release) = StripZeros(SysRelease(inp))
             /\ sysk.ktype = SysType(inp)
====
